---- MODULE Spec2Model ----
(***************************************************************************)
(* A model of the Send API client: class FacebookMessagingAPIClient and    *)
(* the request utility class Utils it delegates to.                        *)
(*                                                                         *)
(* JavaScript values are tagged records, so that typeof, Array.isArray,    *)
(* truthiness and hasOwnProperty can be computed as the code computes them.*)
(* Strings are sequences of characters (or of longer pieces where no code  *)
(* looks inside them).  Objects are functions from property names to       *)
(* values; a missing property is a name outside the DOMAIN.                *)
(***************************************************************************)
EXTENDS Naturals, Sequences, FiniteSets, TLC

VARIABLES heap, clients, request, ctor, lastVersion

vars == <<heap, clients, request, ctor, lastVersion>>

----------------------------------------------------------------------------
(* Bounds of the model.                                                    *)

MaxClients == 2

MaxFields == 2

----------------------------------------------------------------------------
(* JavaScript values.                                                      *)

Undefined == [type |-> "undefined"]

Null == [type |-> "null"]

Str(s) == [type |-> "string", s |-> s]

Bool(b) == [type |-> "boolean", b |-> b]

Fn(name) == [type |-> "function", f |-> name]

Arr(a) == [type |-> "array", a |-> a]

Obj(o) == [type |-> "object", o |-> o]

Num(n) == [type |-> "number", n |-> n]

EmptyObject == [k \in {} |-> Undefined]

\* typeof v === 'function'
IsFunction(v) == v.type = "function"

\* Array.isArray(v)
IsArray(v) == v.type = "array"

\* typeof v === 'string'
IsString(v) == v.type = "string"

\* typeof v === 'object' && !Array.isArray(v) && v !== null
IsPlainObject(v) == v.type = "object"

\* ToBoolean(v), the test of `if (v)`
Truthy(v) ==
  CASE v.type = "undefined" -> FALSE
    [] v.type = "null" -> FALSE
    [] v.type = "boolean" -> v.b
    [] v.type = "string" -> Len(v.s) > 0
    [] OTHER -> TRUE

\* v.hasOwnProperty(k)
HasOwnProperty(v, k) == v.type = "object" /\ k \in DOMAIN v.o

\* v[k]: a property read; a string primitive has none of the properties read here
Prop(v, k) == IF HasOwnProperty(v, k) THEN v.o[k] ELSE Undefined

\* { ...o, k: v }
Spread(o, k, v) == [n \in DOMAIN o \cup {k} |-> IF n = k THEN v ELSE o[n]]

----------------------------------------------------------------------------
(* The heap: the objects a call can reach.  A call mutates the options     *)
(* object it got from getRequestOptions, so whether that object is the     *)
(* process-wide one, or shares its qs with it, decides what later calls    *)
(* see.                                                                    *)

Ref(a) == [type |-> "ref", at |-> a]

BaseRef == "Utils.requestOptions"

BaseQsRef == "Utils.requestOptions.qs"

OptRef == "options"

OptQsRef == "options.qs"

\* o[k] = v, on the object at address a
SetProp(h, a, k, v) == [h EXCEPT ![a] = Spread(h[a], k, v)]

\* the object at address a as a value, nested objects included
Deref(h, a) ==
  Obj([k \in DOMAIN h[a] |->
         IF h[a][k].type = "ref" THEN Obj(h[h[a][k].at]) ELSE h[a][k]])

\* static requestOptions, as the class initialiser leaves it
InitialHeap ==
  (BaseRef :> [url |-> Str(<<"https://graph.facebook.com/v", "3.1", "/">>),
               qs |-> Ref(BaseQsRef),
               method |-> Undefined])
  @@ (BaseQsRef :> [access_token |-> Undefined])

\* what outlives a call: the process-wide objects
Persist(h) == [a \in {BaseRef, BaseQsRef} |-> h[a]]

----------------------------------------------------------------------------
(* class Utils                                                             *)

\* `https://graph.facebook.com/v${version}/`
VersionUrl(version) == Str(<<"https://graph.facebook.com/v">> \o version.s \o <<"/">>)

SetAPIVersionFirstWins(h, version) ==
  IF h[BaseRef].url = InitialHeap[BaseRef].url
  THEN SetProp(h, BaseRef, "url", VersionUrl(version))
  ELSE h

\* Utils.setAPIVersion
SetAPIVersion(h, version) == SetProp(h, BaseRef, "url", VersionUrl(version))

\* JSON.stringify drops the properties whose value is undefined, and
\* JSON.parse builds new objects throughout
JsonClone(o) == [k \in {n \in DOMAIN o : o[n].type # "undefined"} |-> o[k]]

GetRequestOptionsShallow(h) ==
  [heap |-> (OptRef :> h[BaseRef]) @@ h, ref |-> OptRef]

GetRequestOptionsSameObject(h) == [heap |-> h, ref |-> BaseRef]

\* Utils.getRequestOptions: the heap with the copy in it, and the copy's address
GetRequestOptions(h) ==
  [heap |-> (OptRef :> [JsonClone(h[BaseRef]) EXCEPT !.qs = Ref(OptQsRef)])
            @@ (OptQsRef :> JsonClone(h[h[BaseRef].qs.at]))
            @@ h,
   ref |-> OptRef]

----------------------------------------------------------------------------
(* Strings                                                                 *)

\* s.indexOf(prefix) === 0
StartsWith(s, prefix) ==
  Len(s) >= Len(prefix) /\ SubSeq(s, 1, Len(prefix)) = prefix

DigitChar == <<"0", "1", "2", "3", "4", "5", "6", "7", "8", "9">>

RECURSIVE Decimal(_)
\* the decimal digits of a non-negative integer, as `${n}` writes them
Decimal(n) ==
  IF n < 10 THEN <<DigitChar[n + 1]>> ELSE Decimal(n \div 10) \o <<DigitChar[(n % 10) + 1]>>

\* `${v}` for the values a template literal is given here
TemplateString(v) == IF v.type = "number" THEN Decimal(v.n) ELSE v.s

RECURSIVE Join(_, _)
\* a.join(sep)
Join(a, sep) ==
  IF Len(a) = 0 THEN <<>>
  ELSE IF Len(a) = 1 THEN a[1].s
  ELSE a[1].s \o sep \o Join(Tail(a), sep)

----------------------------------------------------------------------------
(* Utils.getProxyData                                                      *)

HttpScheme == <<"h", "t", "t", "p", ":", "/", "/">>

HttpsScheme == <<"h", "t", "t", "p", "s", ":", "/", "/">>

\* Utils.getProxyData: threw, or the requestData it returns
GetProxyData(requestData, proxyData) ==
  IF Truthy(proxyData)
  THEN IF /\ proxyData.type = "object"
          /\ HasOwnProperty(proxyData, "hostname")
          /\ HasOwnProperty(proxyData, "port")
       THEN IF StartsWith(proxyData.o.hostname.s, <<"h", "t", "t", "p">>)
            THEN [threw |-> FALSE,
                  value |-> Spread(requestData, "proxy",
                              Str(proxyData.o.hostname.s \o <<":">>
                                  \o TemplateString(proxyData.o.port)))]
            ELSE [threw |-> FALSE,
                  value |-> Spread(requestData, "proxy",
                              Str(HttpScheme \o proxyData.o.hostname.s \o <<":">>
                                  \o TemplateString(proxyData.o.port)))]
       ELSE [threw |-> TRUE, value |-> requestData]
  ELSE [threw |-> FALSE, value |-> requestData]

----------------------------------------------------------------------------
(* JSON.parse, over the tokens of a text.  P(c) is a punctuation mark and  *)
(* L(s) a string literal.                                                  *)

P(c) == [p |-> c]

L(s) == [lit |-> s]

IsLiteral(tok) == "lit" \in DOMAIN tok

ParseFailed == [ok |-> FALSE]

RECURSIVE ParseValue(_), ParseMember(_, _)
\* one value from the front of toks: [ok, val, rest]
ParseValue(toks) ==
  IF Len(toks) = 0 THEN ParseFailed
  ELSE IF IsLiteral(Head(toks))
       THEN [ok |-> TRUE, val |-> Str(<<Head(toks).lit>>), rest |-> Tail(toks)]
  ELSE IF Head(toks) # P("{") THEN ParseFailed
  ELSE IF Len(toks) >= 2 /\ toks[2] = P("}")
       THEN [ok |-> TRUE, val |-> Obj(EmptyObject), rest |-> SubSeq(toks, 3, Len(toks))]
  ELSE ParseMember(Tail(toks), EmptyObject)

\* the members of an object from `"key": value` on, acc being those read so far
ParseMember(toks, acc) ==
  IF Len(toks) < 4 \/ ~IsLiteral(toks[1]) \/ toks[2] # P(":") THEN ParseFailed
  ELSE LET v == ParseValue(SubSeq(toks, 3, Len(toks))) IN
       IF ~v.ok \/ Len(v.rest) = 0 THEN ParseFailed
       ELSE LET members == Spread(acc, toks[1].lit, v.val) IN
            IF Head(v.rest) = P("}")
            THEN [ok |-> TRUE, val |-> Obj(members), rest |-> Tail(v.rest)]
            ELSE IF Head(v.rest) = P(",") THEN ParseMember(Tail(v.rest), members)
            ELSE ParseFailed

\* JSON.parse(text): [ok |-> FALSE] when it throws
JsonParse(text) ==
  LET v == ParseValue(text) IN
  IF v.ok /\ Len(v.rest) = 0 THEN [ok |-> TRUE, val |-> v.val] ELSE ParseFailed

----------------------------------------------------------------------------
(* Utils.sendMessage                                                       *)

Pending == [state |-> "pending"]

Resolved(v) == [state |-> "resolved", value |-> v]

Rejected(v) == [state |-> "rejected", value |-> v]

\* resolve(v) or reject(v): only the first settles the promise
Settle(promise, outcome) == IF promise.state = "pending" THEN outcome ELSE promise

\* Utils.sendMessage up to the call of request(options, ...): the heap, and
\* the request issued with the promise returned for it
SendMessage(h, ref, requestData, cb) ==
  LET h1 == SetProp(h, h[ref].qs.at, "access_token", requestData.token)
      h2 == IF "proxy" \in DOMAIN requestData
            THEN SetProp(h1, ref, "proxy", requestData.proxy)
            ELSE h1
  IN [heap |-> h2,
      request |-> [options |-> Deref(h2, ref),
                   cb |-> cb,
                   inFlight |-> TRUE,
                   promise |-> IF ~IsFunction(cb) THEN Pending ELSE Resolved(Undefined),
                   cbCalls |-> <<>>,
                   uncaught |-> FALSE]]

\* the body the transport hands over: with a json option it parses the
\* response text when that is JSON, and otherwise the body is the text
TransportBody(options, text) ==
  IF HasOwnProperty(options, "json") /\ JsonParse(text).ok
  THEN JsonParse(text).val
  ELSE Str(text)

OnResponsePromiseIgnoreErr(req, err, body) ==
  [req EXCEPT !.inFlight = FALSE, !.promise = Settle(@, Resolved(body))]

\* the callback given to request() when sendMessage has no cb
OnResponsePromise(req, err, body) ==
  IF Truthy(err)
  THEN [req EXCEPT !.inFlight = FALSE, !.promise = Settle(@, Rejected(err))]
  ELSE IF ~IsPlainObject(body)
       THEN LET parsed == JsonParse(body.s) IN
            IF ~parsed.ok
            THEN [req EXCEPT !.inFlight = FALSE, !.uncaught = TRUE]
            ELSE IF Truthy(Prop(parsed.val, "error"))
                 THEN [req EXCEPT !.inFlight = FALSE,
                                  !.promise = Settle(@, Rejected(Prop(Prop(parsed.val, "error"), "message")))]
                 ELSE [req EXCEPT !.inFlight = FALSE,
                                  !.promise = Settle(@, Resolved(parsed.val))]
       ELSE [req EXCEPT !.inFlight = FALSE, !.promise = Settle(@, Resolved(body))]

\* the callback given to request() when sendMessage has a cb
OnResponseCallback(req, err, body) ==
  IF Truthy(err)
  THEN [req EXCEPT !.inFlight = FALSE, !.cbCalls = Append(@, <<err>>)]
  ELSE IF Truthy(Prop(body, "error"))
       THEN [req EXCEPT !.inFlight = FALSE, !.cbCalls = Append(@, <<Prop(body, "error")>>)]
       ELSE [req EXCEPT !.inFlight = FALSE, !.cbCalls = Append(@, <<Null, body>>)]

----------------------------------------------------------------------------
(* class FacebookMessagingAPIClient.  `this` is the client's requestData.  *)
(* Each method yields what SendMessage yields.                             *)

markSeenPayload == Str(<<"mark_seen">>)

typingOn == Str(<<"typing_on">>)

typingOff == Str(<<"typing_off">>)

\* enum ATTACHMENT_TYPE
ATTACHMENT_TYPE ==
  [IMAGE |-> Str(<<"image">>), AUDIO |-> Str(<<"audio">>), VIDEO |-> Str(<<"video">>),
   FILE |-> Str(<<"file">>), TEMPLATE |-> Str(<<"template">>)]

\* s += t
Concat(s, t) == Str(s.s \o t.s)

\* generateBasicRequestPayload: the heap and the address of the options built
GenerateBasicRequestPayload(h, id) ==
  LET g == GetRequestOptions(h)
      h1 == SetProp(g.heap, g.ref, "url", Concat(g.heap[g.ref].url, Str(<<"me/messages">>)))
      h2 == SetProp(h1, g.ref, "method", Str(<<"POST">>))
      h3 == SetProp(h2, g.ref, "json", Obj([recipient |-> Obj([id |-> id])]))
  IN [heap |-> h3, ref |-> g.ref]

\* sendAction
SendAction(h, this, id, payload, cb) ==
  LET g == GenerateBasicRequestPayload(h, id)
      h1 == SetProp(g.heap, g.ref, "json",
                    Obj(Spread(g.heap[g.ref].json.o, "sender_action", payload)))
  IN SendMessage(h1, g.ref, this, cb)

ToggleActionInverted(h, this, id, toggleValue, cb) ==
  IF Truthy(toggleValue)
  THEN SendAction(h, this, id, typingOff, cb)
  ELSE SendAction(h, this, id, typingOn, cb)

\* toggleAction
ToggleAction(h, this, id, toggleValue, cb) ==
  IF Truthy(toggleValue)
  THEN SendAction(h, this, id, typingOn, cb)
  ELSE SendAction(h, this, id, typingOff, cb)

\* the n-th of the arguments a call was given, undefined when it has fewer
Arg(args, n) == IF n <= Len(args) THEN args[n] ELSE Undefined

\* markSeen(id, cb)
MarkSeen(h, this, id, cb) == SendAction(h, this, id, markSeenPayload, cb)

\* toggleTyping(...args): args is <<id, toggle, cb>> or a prefix of it
ToggleTyping(h, this, args) ==
  IF Len(args) = 3
  THEN ToggleAction(h, this, args[1], args[2], args[3])
  ELSE IF IsFunction(Arg(args, 2))
       THEN SendAction(h, this, args[1], typingOff, Arg(args, 2))
       ELSE ToggleAction(h, this, args[1], Arg(args, 2), Undefined)

\* sendDisplayMessage
SendDisplayMessage(h, this, id, payload, tag, cb) ==
  LET g == GenerateBasicRequestPayload(h, id)
      h1 == SetProp(g.heap, g.ref, "json",
                    Obj(Spread(g.heap[g.ref].json.o, "message", payload)))
      h2 == IF Truthy(tag)
            THEN SetProp(h1, g.ref, "json",
                         Obj(Spread(Spread(h1[g.ref].json.o,
                                           "messaging_type", Prop(tag, "messaging_type")),
                                    "tag", Prop(tag, "tag"))))
            ELSE h1
  IN SendMessage(h2, g.ref, this, cb)

\* sendAttachmentMessage
SendAttachmentMessage(h, this, id, payload, tag, cb) ==
  SendDisplayMessage(h, this, id, Obj([attachment |-> payload]), tag, cb)

\* sendTextMessage
SendTextMessage(h, this, id, text, tag, cb) ==
  SendDisplayMessage(h, this, id, Obj([text |-> text]), tag, cb)

----------------------------------------------------------------------------
(* The URL heuristic of sendUrlOrIdBasedMessage:                           *)
(*   (http(s)?:\/\/.)?  (www\.)?  [-a-zA-Z0-9@:%._\+~#=]{2,256}  \.         *)
(*   [a-z]{2,6}  \b  ( [-a-zA-Z0-9@:%_\+.~#?&//=]* )                       *)
(* The two leading groups are optional and the trailing one matches the    *)
(* empty string, so the string matches exactly when the middle part        *)
(* matches somewhere in it.                                                *)

LowerChars ==
  {"a", "b", "c", "d", "e", "f", "g", "h", "i", "j", "k", "l", "m",
   "n", "o", "p", "q", "r", "s", "t", "u", "v", "w", "x", "y", "z"}

UpperChars ==
  {"A", "B", "C", "D", "E", "F", "G", "H", "I", "J", "K", "L", "M",
   "N", "O", "P", "Q", "R", "S", "T", "U", "V", "W", "X", "Y", "Z"}

DigitChars == {"0", "1", "2", "3", "4", "5", "6", "7", "8", "9"}

\* [-a-zA-Z0-9@:%._\+~#=]
HostChars ==
  LowerChars \cup UpperChars \cup DigitChars \cup {"-", "@", ":", "%", ".", "_", "+", "~", "#", "="}

\* \w
WordChars == LowerChars \cup UpperChars \cup DigitChars \cup {"_"}

\* [-a-zA-Z0-9@:%._\+~#=]{2,256}\.[a-z]{2,6}\b matches s from position i, with
\* n characters before the dot and k letters after it
MatchesAt(s, i, n, k) ==
  /\ i + n + k <= Len(s)
  /\ \A j \in i .. (i + n - 1) : s[j] \in HostChars
  /\ s[i + n] = "."
  /\ \A j \in (i + n + 1) .. (i + n + k) : s[j] \in LowerChars
  /\ (i + n + k = Len(s) \/ s[i + n + k + 1] \notin WordChars)

\* urlOrId.match(...) is not null
MatchesUrl(s) ==
  \E i \in 1 .. Len(s) : \E n \in 2 .. (IF Len(s) < 256 THEN Len(s) ELSE 256) :
    \E k \in 2 .. 6 : MatchesAt(s, i, n, k)

\* sendUrlOrIdBasedMessage
SendUrlOrIdBasedMessage(h, this, id, type, urlOrId, tag, cb) ==
  IF MatchesUrl(urlOrId.s)
  THEN SendAttachmentMessage(h, this, id,
         Obj([type |-> type, payload |-> Obj([is_reusable |-> Bool(TRUE), url |-> urlOrId])]),
         tag, cb)
  ELSE SendAttachmentMessage(h, this, id,
         Obj([type |-> type, payload |-> Obj([attachment_id |-> urlOrId])]),
         tag, cb)

\* sendImageMessage
SendImageMessage(h, this, id, imageUrlOrId, tag, cb) ==
  SendUrlOrIdBasedMessage(h, this, id, ATTACHMENT_TYPE.IMAGE, imageUrlOrId, tag, cb)

\* sendAudioMessage
SendAudioMessage(h, this, id, audioUrlOrId, tag, cb) ==
  SendUrlOrIdBasedMessage(h, this, id, ATTACHMENT_TYPE.AUDIO, audioUrlOrId, tag, cb)

\* sendVideoMessage
SendVideoMessage(h, this, id, videoUrlOrId, tag, cb) ==
  SendUrlOrIdBasedMessage(h, this, id, ATTACHMENT_TYPE.VIDEO, videoUrlOrId, tag, cb)

\* sendFileMessage
SendFileMessage(h, this, id, fileUrlOrId, tag, cb) ==
  SendUrlOrIdBasedMessage(h, this, id, ATTACHMENT_TYPE.FILE, fileUrlOrId, tag, cb)

\* sendButtonsMessage
SendButtonsMessage(h, this, id, text, buttons, tag, cb) ==
  SendAttachmentMessage(h, this, id,
    Obj([type |-> ATTACHMENT_TYPE.TEMPLATE,
         payload |-> Obj([text |-> text, buttons |-> buttons,
                          template_type |-> Str(<<"button">>)])]),
    tag, cb)

\* sendTemplateMessage
SendTemplateMessage(h, this, id, templatePayload, tag, cb) ==
  SendAttachmentMessage(h, this, id,
    Obj([type |-> ATTACHMENT_TYPE.TEMPLATE, payload |-> templatePayload]), tag, cb)

\* sendQuickReplyMessage
SendQuickReplyMessage(h, this, id, textOrAttachment, quickReplies, tag, cb) ==
  IF IsString(textOrAttachment)
  THEN SendDisplayMessage(h, this, id,
         Obj([text |-> textOrAttachment, quick_replies |-> quickReplies]), tag, cb)
  ELSE SendDisplayMessage(h, this, id,
         Obj([attachment |-> textOrAttachment, quick_replies |-> quickReplies]), tag, cb)

GetUserProfileFirstField(h, this, id, fieldsArray, cb) ==
  LET g == GetRequestOptions(h)
      h1 == SetProp(g.heap, g.ref, "url", Concat(g.heap[g.ref].url, id))
      fields == IF ~IsArray(fieldsArray) \/ Len(fieldsArray.a) = 0
                THEN Str(<<"first_name">>)
                ELSE fieldsArray.a[1]
      h2 == SetProp(h1, h1[g.ref].qs.at, "fields", fields)
      h3 == SetProp(h2, g.ref, "method", Str(<<"GET">>))
  IN SendMessage(h3, g.ref, this, cb)

\* getUserProfile
GetUserProfile(h, this, id, fieldsArray, cb) ==
  LET g == GetRequestOptions(h)
      h1 == SetProp(g.heap, g.ref, "url", Concat(g.heap[g.ref].url, id))
      fields == IF ~IsArray(fieldsArray)
                THEN Str(<<"first_name">>)
                ELSE Str(Join(fieldsArray.a, <<",">>))
      h2 == SetProp(h1, h1[g.ref].qs.at, "fields", fields)
      h3 == SetProp(h2, g.ref, "method", Str(<<"GET">>))
  IN SendMessage(h3, g.ref, this, cb)

----------------------------------------------------------------------------
(* The inputs the operations are called with.                              *)

Tokens == {Str(<<"tokenA">>), Str(<<"tokenB">>)}

Id1 == Str(<<"1001">>)

Id2 == Str(<<"1002">>)

\* the version argument of the constructor: absent, empty, or a version
CtorVersions == {Undefined, Str(<<>>), Str(<<"4.0">>)}

SetVersions == {Str(<<"2.11">>), Str(<<"4.0">>)}

PlainHost == <<"p", "x", "y">>

ProxyOk == Obj([hostname |-> Str(PlainHost), port |-> Num(8080)])

ProxyNoPort == Obj([hostname |-> Str(PlainHost)])

ProxyNoHostname == Obj([port |-> Num(8080)])

ProxyString == Str(<<"p", "x", "y", ":", "8", "0">>)

ProxyArray == Arr(<<Str(PlainHost), Num(8080)>>)

\* the proxyData argument of the constructor
ProxyInputs ==
  {Undefined, Null, ProxyOk, ProxyNoPort, ProxyNoHostname, ProxyString, ProxyArray}

MessageTag1 ==
  Obj([messaging_type |-> Str(<<"MESSAGE_TAG">>), tag |-> Str(<<"ACCOUNT_UPDATE">>)])

UrlLike == Str(<<"a", "b", ".", "i", "o", "/", "c", ".", "p", "n", "g">>)

ReferenceId == Str(<<"9", "8", "7", "6", "5">>)

ShortHost == Str(<<"a", ".", "i", "o">>)

Text1 == Str(<<"hi">>)

Buttons1 == Arr(<<Obj([type |-> Str(<<"postback">>), title |-> Str(<<"Yes">>)])>>)

Template1 == Obj([template_type |-> Str(<<"generic">>)])

QuickReplies1 == Arr(<<Obj([content_type |-> Str(<<"text">>), title |-> Str(<<"Red">>)])>>)

Attachment1 == Obj([type |-> ATTACHMENT_TYPE.IMAGE, payload |-> Obj([attachment_id |-> ReferenceId])])

FirstName == Str(<<"first_name">>)

LastName == Str(<<"last_name">>)

RECURSIVE SeqsUpTo(_, _)
\* the sequences over S of length at most n
SeqsUpTo(S, n) ==
  IF n = 0 THEN {<<>>}
  ELSE LET shorter == SeqsUpTo(S, n - 1) IN
       shorter \cup {Append(q, x) : q \in shorter, x \in S}

\* The inputs of the client's methods when the calls themselves are studied.
\*   fields   the fieldsArray argument of getUserProfile: absent, a callback
\*            in its place, or an array of field names
\*   toggles  the arguments of toggleTyping after the id
WideInputs ==
  [ids |-> {Id1, Id2},
   tags |-> {Undefined, MessageTag1},
   callbacks |-> {Undefined, Fn("cb")},
   urlOrIds |-> {UrlLike, ReferenceId, ShortHost},
   textOrAttachments |-> {Text1, Attachment1},
   fields |-> {Undefined, Fn("cb")} \cup {Arr(a) : a \in SeqsUpTo({FirstName, LastName}, MaxFields)},
   toggles |-> {<<>>} \cup {<<t>> : t \in {Bool(TRUE), Bool(FALSE), Fn("cb")}}
                     \cup {<<t, cb>> : t \in {Bool(TRUE), Bool(FALSE), Fn("other")},
                                       cb \in {Undefined, Fn("cb")}}]

\* The inputs of the client's methods when what the calls share is studied.
SharedInputs ==
  [ids |-> {Id1},
   tags |-> {Undefined, MessageTag1},
   callbacks |-> {Undefined},
   urlOrIds |-> {UrlLike},
   textOrAttachments |-> {Text1},
   fields |-> {Undefined, Arr(<<FirstName, LastName>>)},
   toggles |-> {<<Bool(TRUE)>>, <<Fn("cb")>>}]

----------------------------------------------------------------------------
(* The responses of the platform.                                          *)

TransportError == Obj([code |-> Str(<<"ECONNRESET">>)])

OkText ==
  <<P("{"), L("recipient_id"), P(":"), L("1001"), P(","),
    L("message_id"), P(":"), L("mid.1"), P("}")>>

PlatformErrorMessage == "Invalid OAuth access token."

ErrorText ==
  <<P("{"), L("error"), P(":"), P("{"), L("message"), P(":"), L(PlatformErrorMessage), P(","),
    L("type"), P(":"), L("OAuthException"), P("}"), P("}")>>

\* what a proxy or gateway answers: no JSON
HtmlText == <<P("<"), L("html"), P(">")>>

ResponseTexts == {OkText, ErrorText, HtmlText}

----------------------------------------------------------------------------
(* The state machine.                                                      *)
(*   heap         the process-wide objects: Utils.requestOptions and its qs*)
(*   clients      the requestData of the clients constructed so far        *)
(*   request      the request issued last, with the promise returned for   *)
(*                it, the calls made to its callback, and (for the         *)
(*                properties) the call that issued it and the response     *)
(*   ctor         how the last operation ended when it was `new`           *)
(*   lastVersion  the version setAPIVersion was last called with           *)

NoRequest == [call |-> [op |-> "none"]]

NoCtor == [op |-> "none"]

\* the response to the request: none yet, a transport failure, or a text
NoResponse == [arrived |-> FALSE]

Failure == [arrived |-> TRUE, failed |-> TRUE]

Answer(text) == [arrived |-> TRUE, failed |-> FALSE, text |-> text]

DefaultVersion == Str(<<"3.1">>)

Init ==
  /\ heap = InitialHeap
  /\ clients = {}
  /\ request = NoRequest
  /\ ctor = NoCtor
  /\ lastVersion = DefaultVersion

ConstructorVersionFirst(token, proxyData, version) ==
  LET h == IF Truthy(version) THEN SetAPIVersion(heap, version) ELSE heap
      p == GetProxyData([token |-> token], proxyData)
      made == IF p.threw THEN clients ELSE clients \cup {p.value}
  IN /\ Cardinality(made) <= MaxClients
     /\ clients' = made
     /\ heap' = Persist(h)
     /\ lastVersion' = IF Truthy(version) THEN version ELSE lastVersion
     /\ ctor' = [op |-> "new", threw |-> p.threw, version |-> version]
     /\ UNCHANGED request

\* new FacebookMessagingAPIClient(token, proxyData, version)
Constructor(token, proxyData, version) ==
  LET p == GetProxyData([token |-> token], proxyData) IN
  IF p.threw
  THEN /\ ctor' = [op |-> "new", threw |-> TRUE, version |-> version]
       /\ UNCHANGED <<heap, clients, request, lastVersion>>
  ELSE /\ Cardinality(clients \cup {p.value}) <= MaxClients
       /\ clients' = clients \cup {p.value}
       /\ IF Truthy(version)
          THEN /\ heap' = Persist(SetAPIVersion(heap, version))
               /\ lastVersion' = version
          ELSE UNCHANGED <<heap, lastVersion>>
       /\ ctor' = [op |-> "new", threw |-> FALSE, version |-> version]
       /\ UNCHANGED request

New == \E token \in Tokens, proxyData \in ProxyInputs, version \in CtorVersions :
         Constructor(token, proxyData, version)

\* Utils.setAPIVersion(version), called by the application
SetVersion ==
  \E version \in SetVersions :
    /\ heap' = Persist(SetAPIVersion(heap, version))
    /\ lastVersion' = version
    /\ ctor' = NoCtor
    /\ UNCHANGED <<clients, request>>

\* a client method returns: r is what it got from SendMessage
Issue(this, call, r) ==
  /\ heap' = Persist(r.heap)
  /\ request' = [call |-> call, by |-> this, base |-> lastVersion,
                 response |-> NoResponse] @@ r.request
  /\ ctor' = NoCtor
  /\ UNCHANGED <<clients, lastVersion>>

CallMarkSeen(in) ==
  \E this \in clients, id \in in.ids, cb \in in.callbacks :
    Issue(this, [op |-> "markSeen", id |-> id, cb |-> cb], MarkSeen(heap, this, id, cb))

CallToggleTyping(in) ==
  \E this \in clients, id \in in.ids, rest \in in.toggles :
    Issue(this, [op |-> "toggleTyping", id |-> id, args |-> <<id>> \o rest],
          ToggleTyping(heap, this, <<id>> \o rest))

CallSendTextMessage(in) ==
  \E this \in clients, id \in in.ids, tag \in in.tags, cb \in in.callbacks :
    Issue(this, [op |-> "sendTextMessage", id |-> id, cb |-> cb],
          SendTextMessage(heap, this, id, Text1, tag, cb))

CallSendImageMessage(in) ==
  \E this \in clients, id \in in.ids, urlOrId \in in.urlOrIds, tag \in in.tags,
     cb \in in.callbacks :
    Issue(this, [op |-> "sendImageMessage", id |-> id, cb |-> cb],
          SendImageMessage(heap, this, id, urlOrId, tag, cb))

CallSendAudioMessage(in) ==
  \E this \in clients, id \in in.ids, urlOrId \in in.urlOrIds, tag \in in.tags,
     cb \in in.callbacks :
    Issue(this, [op |-> "sendAudioMessage", id |-> id, cb |-> cb],
          SendAudioMessage(heap, this, id, urlOrId, tag, cb))

CallSendVideoMessage(in) ==
  \E this \in clients, id \in in.ids, urlOrId \in in.urlOrIds, tag \in in.tags,
     cb \in in.callbacks :
    Issue(this, [op |-> "sendVideoMessage", id |-> id, cb |-> cb],
          SendVideoMessage(heap, this, id, urlOrId, tag, cb))

CallSendFileMessage(in) ==
  \E this \in clients, id \in in.ids, urlOrId \in in.urlOrIds, tag \in in.tags,
     cb \in in.callbacks :
    Issue(this, [op |-> "sendFileMessage", id |-> id, cb |-> cb],
          SendFileMessage(heap, this, id, urlOrId, tag, cb))

CallSendButtonsMessage(in) ==
  \E this \in clients, id \in in.ids, tag \in in.tags, cb \in in.callbacks :
    Issue(this, [op |-> "sendButtonsMessage", id |-> id, cb |-> cb],
          SendButtonsMessage(heap, this, id, Text1, Buttons1, tag, cb))

CallSendTemplateMessage(in) ==
  \E this \in clients, id \in in.ids, tag \in in.tags, cb \in in.callbacks :
    Issue(this, [op |-> "sendTemplateMessage", id |-> id, cb |-> cb],
          SendTemplateMessage(heap, this, id, Template1, tag, cb))

CallSendQuickReplyMessage(in) ==
  \E this \in clients, id \in in.ids, textOrAttachment \in in.textOrAttachments,
     tag \in in.tags, cb \in in.callbacks :
    Issue(this, [op |-> "sendQuickReplyMessage", id |-> id, cb |-> cb],
          SendQuickReplyMessage(heap, this, id, textOrAttachment, QuickReplies1, tag, cb))

CallGetUserProfile(in) ==
  \E this \in clients, id \in in.ids, fieldsArray \in in.fields, cb \in in.callbacks :
    Issue(this, [op |-> "getUserProfile", id |-> id, fieldsArray |-> fieldsArray, cb |-> cb],
          GetUserProfile(heap, this, id, fieldsArray, cb))

\* a call of any of the client's methods
Call(in) ==
  \/ CallMarkSeen(in)
  \/ CallToggleTyping(in)
  \/ CallSendTextMessage(in)
  \/ CallSendImageMessage(in)
  \/ CallSendAudioMessage(in)
  \/ CallSendVideoMessage(in)
  \/ CallSendFileMessage(in)
  \/ CallSendButtonsMessage(in)
  \/ CallSendTemplateMessage(in)
  \/ CallSendQuickReplyMessage(in)
  \/ CallGetUserProfile(in)

\* the callback sendMessage gave to request()
OnResponse(req, err, body) ==
  IF ~IsFunction(req.cb)
  THEN OnResponsePromise(req, err, body)
  ELSE OnResponseCallback(req, err, body)

\* the HTTP call fails: request() calls back with an error and no body
RespondFailure ==
  /\ request.call.op # "none"
  /\ request.inFlight
  /\ request' = OnResponse([request EXCEPT !.response = Failure], TransportError, Undefined)
  /\ ctor' = NoCtor
  /\ UNCHANGED <<heap, clients, lastVersion>>

\* the HTTP call completes: request() calls back with the body
RespondBody ==
  /\ request.call.op # "none"
  /\ request.inFlight
  /\ \E text \in ResponseTexts :
       request' = OnResponse([request EXCEPT !.response = Answer(text)], Null,
                             TransportBody(request.options, text))
  /\ ctor' = NoCtor
  /\ UNCHANGED <<heap, clients, lastVersion>>

\* Clients are constructed, the version is set and methods are called in any
\* order: what the clients share.
Next ==
  \/ New
  \/ SetVersion
  \/ Call(SharedInputs)

Spec == Init /\ [][Next]_vars

\* One client, constructed with or without a proxy; its methods are called
\* with all their inputs and the platform answers.
InitCalls ==
  /\ heap = InitialHeap
  /\ \E proxyData \in {Undefined, ProxyOk} :
       clients = {GetProxyData([token |-> Str(<<"tokenA">>)], proxyData).value}
  /\ request = NoRequest
  /\ ctor = NoCtor
  /\ lastVersion = DefaultVersion

NextCalls ==
  \/ Call(WideInputs)
  \/ RespondFailure
  \/ RespondBody

SpecCalls == InitCalls /\ [][NextCalls]_vars

----------------------------------------------------------------------------
(* The constructor alone, over many proxy descriptors.                     *)

HostPrefixes ==
  {SubSeq(HttpsScheme, 1, n) : n \in 0 .. Len(HttpsScheme)}
  \cup {SubSeq(HttpScheme, 1, n) : n \in 5 .. Len(HttpScheme)}

HostNames == {PlainHost, <<"h", "o", "s", "t", ".", "i", "o">>}

Ports == {Num(8080), Num(80), Str(<<"3", "1", "2", "8">>)}

ManyProxyInputs ==
  {Obj([hostname |-> Str(prefix \o name), port |-> port]) :
     prefix \in HostPrefixes, name \in HostNames, port \in Ports}
  \cup ProxyInputs

\* a first client is constructed
NewFirst ==
  /\ clients = {}
  /\ \E token \in Tokens, proxyData \in ManyProxyInputs :
       Constructor(token, proxyData, Undefined)

SpecProxy == Init /\ [][NewFirst]_vars

----------------------------------------------------------------------------
(* Properties.                                                             *)

Issued == request.call.op # "none"

PromiseMode == Issued /\ ~IsFunction(request.cb)

CallbackMode == Issued /\ IsFunction(request.cb)

\* the platform's answer reports an error
PlatformError == Issued /\ request.response = Answer(ErrorText)

\* the error object of ErrorText
PlatformErrorObject ==
  Obj([message |-> Str(<<PlatformErrorMessage>>), type |-> Str(<<"OAuthException">>)])

\* the path a method appends to the base URL
Suffix(call) == IF call.op = "getUserProfile" THEN call.id ELSE Str(<<"me/messages">>)

\* the URL of a request to the API of `version` with the call's path
UrlOf(version, call) ==
  Str(<<"https://graph.facebook.com/v">> \o version.s \o <<"/">> \o Suffix(call).s)

\* C1: in promise mode, a response that carries a platform error rejects the
\* promise with the error's message, whatever form the body arrives in.
C1_PlatformErrorRejects ==
  (PromiseMode /\ PlatformError) =>
    request.promise = Rejected(Str(<<PlatformErrorMessage>>))

\* C2: in callback mode, a response that carries a platform error makes one
\* call of the callback, with the error object as its only argument, for POST
\* sends and for getUserProfile alike.
C2_PlatformErrorToCallback ==
  (CallbackMode /\ PlatformError) =>
    request.cbCalls = <<<<PlatformErrorObject>>>>

\* C3: a transport failure rejects the promise with the transport error
\* (promise mode) or is the only argument of the only call of the callback
\* (callback mode); nothing is resolved and no body is delivered.
C3_TransportFailure ==
  (Issued /\ request.response = Failure) =>
    /\ ~request.uncaught
    /\ PromiseMode => /\ request.promise = Rejected(TransportError)
                      /\ request.cbCalls = <<>>
    /\ CallbackMode => request.cbCalls = <<<<TransportError>>>>

C3_Witness ==
  /\ PromiseMode
  /\ request.response = Failure
  /\ request.promise.state = "rejected"

\* C4: the proxy string of every client constructed with an accepted proxy
\* descriptor begins with http:// or https://.
C4_ProxyHasScheme ==
  \A c \in clients :
    "proxy" \in DOMAIN c =>
      StartsWith(c.proxy.s, HttpScheme) \/ StartsWith(c.proxy.s, HttpsScheme)

\* the properties a request of the call carries, and those of its qs
OptionKeys(call, by) ==
  {"url", "qs", "method"}
  \cup (IF call.op = "getUserProfile" THEN {} ELSE {"json"})
  \cup (IF "proxy" \in DOMAIN by THEN {"proxy"} ELSE {})

QsKeys(call) ==
  {"access_token"} \cup (IF call.op = "getUserProfile" THEN {"fields"} ELSE {})

\* C5: the process-wide options are never changed by a call (only their url,
\* by setAPIVersion, and then to a base URL), and every request issued has
\* the base URL followed by one suffix and only the properties its own call
\* gave it.
C5_BaseOptionsUntouched ==
  /\ DOMAIN heap[BaseRef] = {"url", "qs", "method"}
  /\ heap[BaseRef].method = Undefined
  /\ heap[BaseRef].qs = Ref(BaseQsRef)
  /\ heap[BaseQsRef] = [access_token |-> Undefined]
  /\ Len(heap[BaseRef].url.s) = 3
  /\ Issued =>
       /\ Len(request.options.o.url.s) = 4
       /\ SubSeq(request.options.o.url.s, 1, 3) = VersionUrl(request.base).s
       /\ request.options.o.url.s[4] = Suffix(request.call).s[1]
       /\ DOMAIN request.options.o = OptionKeys(request.call, request.by)
       /\ DOMAIN request.options.o.qs.o = QsKeys(request.call)
       /\ request.options.o.method =
            (IF request.call.op = "getUserProfile" THEN Str(<<"GET">>) ELSE Str(<<"POST">>))
       /\ "json" \in DOMAIN request.options.o =>
            /\ request.options.o.json.o.recipient = Obj([id |-> request.call.id])
            /\ DOMAIN request.options.o.json.o \in
                 {{"recipient", "sender_action"}, {"recipient", "message"},
                  {"recipient", "message", "messaging_type", "tag"}}

C5_Witness ==
  /\ Issued
  /\ request.call.op = "getUserProfile"
  /\ request.base = Str(<<"2.11">>)
  /\ lastVersion = Str(<<"4.0">>)
  /\ Cardinality(clients) = 2

\* C6: the base URL is that of the version set last (v3.1 when none was), for
\* every client: each request is issued to the base URL of the version that
\* was the last one set when it was issued, and a client constructed without
\* a version leaves the base URL as it was.
C6_LastWriterWins ==
  /\ [](/\ heap[BaseRef].url = VersionUrl(lastVersion)
        /\ Issued => request.options.o.url = UrlOf(request.base, request.call))
  /\ [][(ctor'.op = "new" /\ ~ctor'.threw /\ ~Truthy(ctor'.version))
          => heap'[BaseRef].url = heap[BaseRef].url]_vars
  /\ [][request' # request => request'.base = lastVersion]_vars

C6_Witness ==
  /\ Issued
  /\ request.base = Str(<<"2.11">>)
  /\ lastVersion = Str(<<"4.0">>)
  /\ ctor.op = "new" /\ ~ctor.threw /\ Truthy(ctor.version)

\* the sender action the claim gives a toggleTyping call: on for true, off for
\* false and for a callback as the second of two arguments
ToggleExpected(args) ==
  IF args[2] = Bool(TRUE) THEN typingOn ELSE typingOff

\* the toggleTyping calls the claim is about
ToggleClaimed(args) ==
  \/ Len(args) >= 2 /\ args[2] \in {Bool(TRUE), Bool(FALSE)}
  \/ Len(args) = 2 /\ IsFunction(args[2])

IsCommaJoined(s, a) ==
  /\ Len(s) = (IF Len(a) = 0 THEN 0 ELSE 2 * Len(a) - 1)
  /\ \A i \in 1 .. Len(a) : s[2 * i - 1] = a[i].s[1]
  /\ \A i \in 1 .. (Len(a) - 1) : s[2 * i] = ","

\* C8: getUserProfile issues a GET to base + id without a json body, with
\* fields the comma-joined array, or first_name when the second argument is
\* no array.
C8_GetUserProfile ==
  (Issued /\ request.call.op = "getUserProfile") =>
    /\ request.options.o.method = Str(<<"GET">>)
    /\ request.options.o.url = UrlOf(request.base, request.call)
    /\ "json" \notin DOMAIN request.options.o
    /\ IF IsArray(request.call.fieldsArray)
       THEN IsCommaJoined(request.options.o.qs.o.fields.s, request.call.fieldsArray.a)
       ELSE request.options.o.qs.o.fields = Str(<<"first_name">>)

C8_Witness ==
  /\ Issued
  /\ request.call.op = "getUserProfile"
  /\ request.call.fieldsArray = Arr(<<LastName, FirstName>>)
  /\ request.options.o.qs.o.fields = Str(<<"last_name", ",", "first_name">>)

\* the descriptors that exist but lack hostname or port, or are no plain object
InvalidProxies == {ProxyNoPort, ProxyNoHostname, ProxyString, ProxyArray}

\* C9: constructing a client with an invalid proxy descriptor throws, and a
\* construction that throws changes nothing: not the base URL (a version
\* argument notwithstanding), not the clients, and no request is issued.
C9_FailedConstruction ==
  [][/\ (ctor'.op = "new" /\ ctor'.threw) =>
          UNCHANGED <<heap, clients, request, lastVersion>>
     /\ \A token \in Tokens, proxyData \in InvalidProxies, version \in CtorVersions :
          Constructor(token, proxyData, version) => ctor'.threw]_vars

C9_Witness ==
  /\ ctor.op = "new"
  /\ ctor.threw
  /\ ctor.version = Str(<<"4.0">>)
  /\ heap[BaseRef].url = VersionUrl(Str(<<"2.11">>))

\* C10: every request carries the token and the proxy of the client that
\* issued it, no proxy when that client has none, and the process-wide options
\* never hold a token or a proxy.
C10_CredentialsIsolated ==
  /\ heap[BaseQsRef].access_token = Undefined
  /\ "proxy" \notin DOMAIN heap[BaseRef]
  /\ Issued =>
       /\ request.by \in clients
       /\ request.options.o.qs.o.access_token = request.by.token
       /\ ("proxy" \in DOMAIN request.options.o) = ("proxy" \in DOMAIN request.by)
       /\ "proxy" \in DOMAIN request.by => request.options.o.proxy = request.by.proxy

C10_Witness ==
  /\ Issued
  /\ "proxy" \notin DOMAIN request.by
  /\ \E other \in clients : other.token # request.by.token /\ "proxy" \in DOMAIN other

====
